---- MODULE Spec2Model ----
(***************************************************************************)
(* Model of the lite-server client of src/src/lib.rs: LiteClient::connect, *)
(* the generic LiteClient::lite_query and the facades built on it.  Byte   *)
(* buffers are sequences of numbers 0..255; the TL wire encoding that      *)
(* tl_proto::serialize / tl_proto::deserialize apply is modelled byte by   *)
(* byte, so that framing round trips are something the check can refute.   *)
(***************************************************************************)
EXTENDS Integers, Sequences, FiniteSets, TLC

\* ------------------------------------------------------------------ bounds
MaxQueries == 2      \* facade calls made on the session in one behaviour
NumTokens == 2       \* values the random source can produce
NumCallers == 2      \* callers that share the client
MaxRawLen == 3       \* longest raw byte string the peer puts in an answer

\* --------------------------------------------------------- program constants
TokenLen == 32       \* scheme::Int256: a 256-bit query_id
SizeMagic == 254     \* TL byte strings: first byte 254 announces a 3-byte length
RecvBuffer == 8192   \* the size parameter of receive::<_, 8192>

Callers == 1..NumCallers

Zeros(n) == [i \in 1..n |-> 0]

Token(i) == [j \in 1..TokenLen |-> i]
Tokens == {Token(i) : i \in 1..NumTokens}

\* ------------------------------------------------------------ TL primitives
Pad(n) == (4 - (n % 4)) % 4

\* little-endian bytes of a non-negative number below 2^31
LeBytes(m) == <<m % 256, (m \div 256) % 256, (m \div 65536) % 256, (m \div 16777216) % 256>>

\* i32 as written by TlWrite: little endian, two's complement
Int32ToBytes(n) ==
    IF n >= 0 THEN LeBytes(n)
    ELSE LET b == LeBytes(-(n + 1)) IN [i \in 1..4 |-> 255 - b[i]]

LeValue(b) == b[1] + 256 * b[2] + 65536 * b[3] + 16777216 * b[4]

\* i32 as read by TlRead
BytesToInt32(b) ==
    IF b[4] < 128 THEN LeValue(b)
    ELSE -(LeValue([i \in 1..4 |-> 255 - b[i]])) - 1

\* a byte string as written by TlWrite: length prefix, data, padding to 4
TlBytes(b) ==
    LET l == Len(b) IN
    IF l < SizeMagic
    THEN <<l>> \o b \o Zeros(Pad(1 + l))
    ELSE <<SizeMagic, l % 256, (l \div 256) % 256, (l \div 65536) % 256>> \o b \o Zeros(Pad(l))

\* ReadBytes with the data taken one byte early: the length prefix is not skipped
ReadBytesSkewed(buf, off) ==
    IF Len(buf) < off + 1 THEN [ok |-> FALSE, val |-> <<>>, next |-> off]
    ELSE LET first == buf[off + 1]
             long == (first = SizeMagic)
         IN  IF long /\ Len(buf) < off + 4 THEN [ok |-> FALSE, val |-> <<>>, next |-> off]
             ELSE LET pre == IF long THEN 4 ELSE 1
                      l == IF long
                           THEN buf[off + 2] + 256 * buf[off + 3] + 65536 * buf[off + 4]
                           ELSE first
                  IN  IF Len(buf) < off + pre + l
                      THEN [ok |-> FALSE, val |-> <<>>, next |-> off]
                      ELSE [ok |-> TRUE,
                            val |-> SubSeq(buf, off + pre, off + pre + l - 1),
                            next |-> off + pre + l + Pad(pre + l)]

\* a byte string as read by TlRead at 0-based offset off of buf
ReadBytes(buf, off) ==
    IF Len(buf) < off + 1 THEN [ok |-> FALSE, val |-> <<>>, next |-> off]
    ELSE LET first == buf[off + 1]
             long == (first = SizeMagic)
         IN  IF long /\ Len(buf) < off + 4 THEN [ok |-> FALSE, val |-> <<>>, next |-> off]
             ELSE LET pre == IF long THEN 4 ELSE 1
                      l == IF long
                           THEN buf[off + 2] + 256 * buf[off + 3] + 65536 * buf[off + 4]
                           ELSE first
                  IN  IF Len(buf) < off + pre + l
                      THEN [ok |-> FALSE, val |-> <<>>, next |-> off]
                      ELSE [ok |-> TRUE,
                            val |-> SubSeq(buf, off + pre + 1, off + pre + l),
                            next |-> off + pre + l + Pad(pre + l)]

\* ------------------------------------------------------- constructor ids
\* 4-byte constructor ids of the boxed TL types of the scheme module
RequestKinds ==
    {"GetMasterchainInfo", "GetMasterchainInfoExt", "GetTime", "GetVersion",
     "GetBlock", "GetState", "GetBlockHeader", "SendMessage", "GetAccountState",
     "RunSmcMethod", "GetShardInfo", "GetAllShardsInfo", "GetOneTransaction",
     "GetTransactions", "LookupBlock", "ListBlockTransactions", "GetBlockProof",
     "GetConfigAll", "GetConfigParams", "GetValidatorStats"}

\* ExpectedType with lookup_block naming the success type of get_block
ExpectedTypeSwapped ==
    [k \in RequestKinds |->
       CASE k = "GetMasterchainInfo" -> "MasterchainInfo"
         [] k = "GetMasterchainInfoExt" -> "MasterchainInfoExt"
         [] k = "GetTime" -> "CurrentTime"
         [] k = "GetVersion" -> "Version"
         [] k = "GetBlock" -> "BlockData"
         [] k = "GetState" -> "BlockState"
         [] k = "GetBlockHeader" -> "BlockHeader"
         [] k = "SendMessage" -> "SendMsgStatus"
         [] k = "GetAccountState" -> "AccountState"
         [] k = "RunSmcMethod" -> "RunMethodResult"
         [] k = "GetShardInfo" -> "ShardInfo"
         [] k = "GetAllShardsInfo" -> "AllShardsInfo"
         [] k = "GetOneTransaction" -> "TransactionInfo"
         [] k = "GetTransactions" -> "TransactionList"
         [] k = "LookupBlock" -> "BlockData"
         [] k = "ListBlockTransactions" -> "BlockTransactions"
         [] k = "GetBlockProof" -> "PartialBlockProof"
         [] k = "GetConfigAll" -> "ConfigInfo"
         [] k = "GetConfigParams" -> "ConfigInfo"
         [] k = "GetValidatorStats" -> "ValidatorStats"]

\* the success type each facade names in its `as TlResult<...>`
ExpectedType ==
    [k \in RequestKinds |->
       CASE k = "GetMasterchainInfo" -> "MasterchainInfo"
         [] k = "GetMasterchainInfoExt" -> "MasterchainInfoExt"
         [] k = "GetTime" -> "CurrentTime"
         [] k = "GetVersion" -> "Version"
         [] k = "GetBlock" -> "BlockData"
         [] k = "GetState" -> "BlockState"
         [] k = "GetBlockHeader" -> "BlockHeader"
         [] k = "SendMessage" -> "SendMsgStatus"
         [] k = "GetAccountState" -> "AccountState"
         [] k = "RunSmcMethod" -> "RunMethodResult"
         [] k = "GetShardInfo" -> "ShardInfo"
         [] k = "GetAllShardsInfo" -> "AllShardsInfo"
         [] k = "GetOneTransaction" -> "TransactionInfo"
         [] k = "GetTransactions" -> "TransactionList"
         [] k = "LookupBlock" -> "BlockHeader"
         [] k = "ListBlockTransactions" -> "BlockTransactions"
         [] k = "GetBlockProof" -> "PartialBlockProof"
         [] k = "GetConfigAll" -> "ConfigInfo"
         [] k = "GetConfigParams" -> "ConfigInfo"
         [] k = "GetValidatorStats" -> "ValidatorStats"]

SuccessTypes == {ExpectedType[k] : k \in RequestKinds}

ConstructorNames ==
    <<"MessageQuery", "MessageAnswer", "LsQuery", "Error",
      "MasterchainInfo", "MasterchainInfoExt", "CurrentTime", "Version",
      "BlockData", "BlockState", "BlockHeader", "SendMsgStatus", "AccountState",
      "RunMethodResult", "ShardInfo", "AllShardsInfo", "TransactionInfo",
      "TransactionList", "BlockTransactions", "PartialBlockProof", "ConfigInfo",
      "ValidatorStats",
      "GetMasterchainInfo", "GetMasterchainInfoExt", "GetTime", "GetVersion",
      "GetBlock", "GetState", "GetBlockHeader", "SendMessage", "GetAccountState",
      "RunSmcMethod", "GetShardInfo", "GetAllShardsInfo", "GetOneTransaction",
      "GetTransactions", "LookupBlock", "ListBlockTransactions", "GetBlockProof",
      "GetConfigAll", "GetConfigParams", "GetValidatorStats", "Unrecognized">>

\* distinct ids, one per constructor (the real ids are CRC32 values)
TlId(name) ==
    LET i == CHOOSE j \in 1..Len(ConstructorNames) : ConstructorNames[j] = name
    IN  <<i, 128 + i, 7, 200>>

\* ------------------------------------------------------------ serialization
\* tl_proto::serialize(request): the request's constructor id (arguments left out)
SerializeRequest(kind) == TlId(kind)

\* tl_proto::serialize(scheme::Query{data})
SerializeLsQuery(data) == TlId("LsQuery") \o TlBytes(data)

\* tl_proto::serialize(scheme::Message::Query{..} / ::Answer{..})
SerializeMessage(variant, query_id, body) ==
    TlId(IF variant = "Query" THEN "MessageQuery" ELSE "MessageAnswer")
        \o query_id \o TlBytes(body)

\* BuildMessage with a constant query_id in place of the drawn one
BuildMessageFixedToken(kind, query_id) ==
    SerializeMessage("Query", Token(1), SerializeLsQuery(SerializeRequest(kind)))

\* the buffer lite_query builds for a request and a drawn query_id
BuildMessage(kind, query_id) ==
    SerializeMessage("Query", query_id, SerializeLsQuery(SerializeRequest(kind)))

\* a success value of a boxed type: constructor id, then one i32 field
SerializeValue(type, v) == TlId(type) \o Int32ToBytes(v)

\* liteServer.error code:int message:string
SerializeError(code, msg) == TlId("Error") \o Int32ToBytes(code) \o TlBytes(msg)

\* ---------------------------------------------------------- deserialization
MsgErr(e) == [ok |-> FALSE, variant |-> "none", query_id |-> <<>>, body |-> <<>>, err |-> e]

\* tl_proto::deserialize::<scheme::Message>(buf)
DeserializeMessage(buf) ==
    IF Len(buf) < 4 THEN MsgErr("UnexpectedEof")
    ELSE LET id == SubSeq(buf, 1, 4) IN
         IF id # TlId("MessageQuery") /\ id # TlId("MessageAnswer")
         THEN MsgErr("UnknownConstructor")
         ELSE IF Len(buf) < 4 + TokenLen THEN MsgErr("UnexpectedEof")
         ELSE LET rb == ReadBytes(buf, 4 + TokenLen) IN
              IF ~rb.ok THEN MsgErr("UnexpectedEof")
              ELSE [ok |-> TRUE,
                    variant |-> IF id = TlId("MessageQuery") THEN "Query" ELSE "Answer",
                    query_id |-> SubSeq(buf, 5, 4 + TokenLen),
                    body |-> rb.val,
                    err |-> "none"]

\* a TlResult<U>; diag is the byte content the value carries: a TlError has none
OkResult(type, v) == [tag |-> "Ok", type |-> type, value |-> v, err |-> "none", diag |-> <<>>]
ErrResult(type, e) == [tag |-> "Err", type |-> type, value |-> 0, err |-> e, diag |-> <<>>]
NoResult == [tag |-> "None", type |-> "none", value |-> 0, err |-> "none", diag |-> <<>>]

\* DeserializeValue that reads the field one byte early
DeserializeValueSkewed(type, buf) ==
    IF Len(buf) < 4 THEN ErrResult(type, "UnexpectedEof")
    ELSE IF SubSeq(buf, 1, 4) # TlId(type) THEN ErrResult(type, "UnknownConstructor")
    ELSE IF Len(buf) < 8 THEN ErrResult(type, "UnexpectedEof")
    ELSE OkResult(type, BytesToInt32(SubSeq(buf, 4, 7)))

\* tl_proto::deserialize::<U>(buf): bytes after the value are not looked at
DeserializeValue(type, buf) ==
    IF Len(buf) < 4 THEN ErrResult(type, "UnexpectedEof")
    ELSE IF SubSeq(buf, 1, 4) # TlId(type) THEN ErrResult(type, "UnknownConstructor")
    ELSE IF Len(buf) < 8 THEN ErrResult(type, "UnexpectedEof")
    ELSE OkResult(type, BytesToInt32(SubSeq(buf, 5, 8)))

\* ------------------------------------------------------------------ the peer
\* What the peer can put on the channel for one receive.  The peer is outside
\* the program, so every shape is possible.
Values == {1700000000, 0, -1}
ErrorCodes == {-400, 651}
NotFound == <<110, 111, 116, 32, 102, 111, 117, 110, 100>>
RawBytes == UNION {[1..n -> {0, 9}] : n \in 0..MaxRawLen} \cup {Zeros(SizeMagic)}

\* another success type than t
OtherType(t) == IF t = "CurrentTime" THEN "Version" ELSE "CurrentTime"

PeerMsg(shape, token, ptype, type, value, raw, cut) ==
    [shape |-> shape, token |-> token, ptype |-> ptype, type |-> type,
     value |-> value, raw |-> raw, cut |-> cut]

NoPeerMsg == PeerMsg("none", <<>>, "none", "none", 0, <<>>, 0)

\* the payloads a peer answers a request of kind k with
PeerPayloads(k, token, shape) ==
    {PeerMsg(shape, token, "value", t, v, <<>>, 0) :
        t \in {ExpectedType[k], OtherType(ExpectedType[k])}, v \in Values}
    \cup {PeerMsg(shape, token, "error", "Error", c, NotFound, 0) : c \in ErrorCodes}
    \cup {PeerMsg(shape, token, "short", ExpectedType[k], 0, <<1, 2>>, 0)}
    \cup {PeerMsg(shape, token, "raw", "none", 0, r, 0) : r \in RawBytes}

TruncationCuts == {0, 2, 4, 20, 36, 38}

\* an answer envelope longer than RecvBuffer: a value of the expected type
\* followed by RecvBuffer more bytes
OversizeMessages(k) ==
    {PeerMsg("answer", t, "big", ExpectedType[k], 1700000000, Zeros(RecvBuffer), 0) : t \in Tokens}

PeerMessages(k) ==
    UNION {PeerPayloads(k, t, "answer") : t \in Tokens}
    \cup OversizeMessages(k)
    \cup {PeerMsg("echo", <<>>, "none", "none", 0, <<>>, 0)}
    \cup {PeerMsg("unknown", t, "value", ExpectedType[k], 0, <<>>, 0) : t \in Tokens}
    \cup {PeerMsg("truncated", t, "value", ExpectedType[k], 0, <<>>, c) :
            t \in Tokens, c \in TruncationCuts}

\* the payload bytes the peer means
Payload(m) ==
    CASE m.ptype = "value" -> SerializeValue(m.type, m.value)
      [] m.ptype = "error" -> SerializeError(m.value, m.raw)
      [] m.ptype = "short" -> TlId(m.type) \o m.raw
      [] m.ptype = "big" -> SerializeValue(m.type, m.value) \o m.raw
      [] OTHER -> m.raw

\* the bytes receive hands to the client for peer message m
WireBytes(m, sentMessage) ==
    CASE m.shape = "answer" -> SerializeMessage("Answer", m.token, Payload(m))
      [] m.shape = "echo" -> sentMessage
      [] m.shape = "unknown" -> TlId("Unrecognized") \o m.token \o TlBytes(Payload(m))
      [] OTHER -> SubSeq(SerializeMessage("Answer", m.token, Payload(m)), 1, m.cut)

\* -------------------------------------------------------------------- state
VARIABLES
    client,         \* "none" before connect returns Ok, then "connected"
    connectResult,  \* what the last connect call returned: "none", "Ok", "Err"
    panicked,       \* an unwrap or panic! has fired: the program is gone
    chan,           \* the ADNL channel: "open", or "failed" once send/receive erred
    pc,             \* per caller: where it stands in its facade call
    req,            \* per caller: the request kind of the call in progress
    message,        \* per caller: lite_query's local `message`
    response,       \* per caller: the facade's `response` buffer
    result,         \* per caller: what lite_query returned
    sent,           \* the query_id of each envelope written to the channel, in order
    drawn,          \* the query_ids the random source produced, in order
    calls,          \* number of facade calls started
    peerMsg,        \* what the peer put on the channel for the last receive
    steps           \* per caller: the steps the call in progress has taken, in order

vars == <<client, connectResult, panicked, chan, pc, req, message, response,
          result, sent, drawn, calls, peerMsg, steps>>

Init ==
    /\ client = "none"
    /\ connectResult = "none"
    /\ panicked = FALSE
    /\ chan = "open"
    /\ pc = [c \in Callers |-> "idle"]
    /\ req = [c \in Callers |-> "none"]
    /\ message = [c \in Callers |-> <<>>]
    /\ response = [c \in Callers |-> <<>>]
    /\ result = [c \in Callers |-> NoResult]
    /\ sent = <<>>
    /\ drawn = <<>>
    /\ calls = 0
    /\ peerMsg = NoPeerMsg
    /\ steps = [c \in Callers |-> <<>>]

\* LiteClient::connect: config is "invalid" (not JSON), "empty" (no liteservers)
\* or "ok"; tcp and handshake tell whether TcpStream::connect and
\* perform_handshake succeed
Connect(config, tcp, handshake) ==
    /\ ~panicked
    /\ client = "none"
    /\ IF config = "invalid"
       THEN connectResult' = "Err" /\ UNCHANGED <<client, panicked>>
       ELSE IF config = "empty"
       THEN panicked' = TRUE /\ UNCHANGED <<client, connectResult>>
       ELSE IF ~tcp \/ ~handshake
       THEN connectResult' = "Err" /\ UNCHANGED <<client, panicked>>
       ELSE client' = "connected" /\ connectResult' = "Ok" /\ UNCHANGED panicked
    /\ UNCHANGED <<chan, pc, req, message, response, result, sent, drawn, calls, peerMsg, steps>>

\* BorrowFree for a client shared without the exclusive borrow
BorrowUnchecked(c) == TRUE

\* `&mut self`: a facade call can start only while no other call borrows the client
BorrowFree(c) == \A d \in Callers : pc[d] = "idle"

\* the query_id values rand::random() can return
RandomToken == Tokens

\* a facade is entered: `response = Vec::new()`, then lite_query builds `message`
Call(c, kind) ==
    /\ ~panicked
    /\ client = "connected"
    /\ calls < MaxQueries
    /\ pc[c] = "idle"
    /\ BorrowFree(c)
    /\ \E t \in RandomToken :
         /\ drawn' = Append(drawn, t)
         /\ message' = [message EXCEPT ![c] = BuildMessage(kind, t)]
    /\ calls' = calls + 1
    /\ req' = [req EXCEPT ![c] = kind]
    /\ response' = [response EXCEPT ![c] = <<>>]
    /\ result' = [result EXCEPT ![c] = NoResult]
    /\ pc' = [pc EXCEPT ![c] = "built"]
    /\ steps' = [steps EXCEPT ![c] = <<"encode">>]
    /\ UNCHANGED <<client, connectResult, panicked, chan, sent, peerMsg>>

\* the query_id field of an envelope seen on the channel
WrittenQueryId(buf) == SubSeq(buf, 5, 4 + TokenLen)

\* Send that tries again after a failed send instead of giving up
SendRetry(c, ok) ==
    /\ ~panicked
    /\ pc[c] = "built"
    /\ IF ok
       THEN /\ sent' = Append(sent, WrittenQueryId(message[c]))
            /\ pc' = [pc EXCEPT ![c] = "sent"]
            /\ UNCHANGED <<panicked, chan>>
       ELSE /\ Len(steps[c]) < 3
            /\ UNCHANGED <<panicked, chan, pc, sent>>
    /\ steps' = [steps EXCEPT ![c] = Append(@, "send")]
    /\ UNCHANGED <<client, connectResult, req, message, response, result, drawn, calls, peerMsg>>

\* self.client.send(&mut message, ..).unwrap()
Send(c, ok) ==
    /\ ~panicked
    /\ pc[c] = "built"
    /\ IF ok
       THEN /\ sent' = Append(sent, WrittenQueryId(message[c]))
            /\ pc' = [pc EXCEPT ![c] = "sent"]
            /\ UNCHANGED <<panicked, chan>>
       ELSE /\ panicked' = TRUE
            /\ chan' = "failed"
            /\ pc' = [pc EXCEPT ![c] = "aborted"]
            /\ UNCHANGED sent
    /\ steps' = [steps EXCEPT ![c] = Append(@, "send")]
    /\ UNCHANGED <<client, connectResult, req, message, response, result, drawn, calls, peerMsg>>

\* self.client.receive::<_, 8192>(response).unwrap()
Receive(c, ok) ==
    /\ ~panicked
    /\ pc[c] = "sent"
    /\ IF ok
       THEN /\ \E m \in PeerMessages(req[c]) :
                 /\ peerMsg' = m
                 /\ response' = [response EXCEPT ![c] = WireBytes(m, message[c])]
            /\ pc' = [pc EXCEPT ![c] = "received"]
            /\ UNCHANGED <<panicked, chan>>
       ELSE /\ panicked' = TRUE
            /\ chan' = "failed"
            /\ pc' = [pc EXCEPT ![c] = "aborted"]
            /\ UNCHANGED <<response, peerMsg>>
    /\ steps' = [steps EXCEPT ![c] = Append(@, "receive")]
    /\ UNCHANGED <<client, connectResult, req, message, result, sent, drawn, calls>>

\* receive::<_, 8192> meets a peer packet longer than RecvBuffer and returns
\* Err, which is unwrapped.  Whether the ADNL layer refuses such a packet or
\* reads it in RecvBuffer-sized pieces is not decided by lite_query: Receive
\* delivers it, this action refuses it.
ReceiveRefused(c) ==
    /\ ~panicked
    /\ pc[c] = "sent"
    /\ \E m \in OversizeMessages(req[c]) :
         /\ Len(WireBytes(m, message[c])) > RecvBuffer
         /\ peerMsg' = m
    /\ panicked' = TRUE
    /\ pc' = [pc EXCEPT ![c] = "aborted"]
    /\ steps' = [steps EXCEPT ![c] = Append(@, "receive")]
    /\ UNCHANGED <<client, connectResult, chan, req, message, response, result, sent, drawn, calls>>

\* Decode without `*response = answer`: the envelope stays in `response`
DecodeKeepEnvelope(c) ==
    /\ ~panicked
    /\ pc[c] = "received"
    /\ LET data == DeserializeMessage(response[c]) IN
       IF ~data.ok \/ data.variant # "Answer"
       THEN /\ panicked' = TRUE
            /\ pc' = [pc EXCEPT ![c] = "aborted"]
            /\ steps' = [steps EXCEPT ![c] = Append(@, "envelope")]
            /\ UNCHANGED <<response, result>>
       ELSE /\ result' = [result EXCEPT ![c] = DeserializeValue(ExpectedType[req[c]], response[c])]
            /\ pc' = [pc EXCEPT ![c] = "returned"]
            /\ steps' = [steps EXCEPT ![c] = @ \o <<"envelope", "payload">>]
            /\ UNCHANGED <<panicked, response>>
    /\ UNCHANGED <<client, connectResult, chan, req, message, sent, drawn, calls, peerMsg>>

\* the rest of lite_query: deserialize the Message, unwrap, take the Answer's
\* bytes into `response`, deserialize the expected type from them, return
Decode(c) ==
    /\ ~panicked
    /\ pc[c] = "received"
    /\ LET data == DeserializeMessage(response[c]) IN
       IF ~data.ok \/ data.variant # "Answer"
       THEN /\ panicked' = TRUE
            /\ pc' = [pc EXCEPT ![c] = "aborted"]
            /\ steps' = [steps EXCEPT ![c] = Append(@, "envelope")]
            /\ UNCHANGED <<response, result>>
       ELSE /\ response' = [response EXCEPT ![c] = data.body]
            /\ result' = [result EXCEPT ![c] = DeserializeValue(ExpectedType[req[c]], data.body)]
            /\ pc' = [pc EXCEPT ![c] = "returned"]
            /\ steps' = [steps EXCEPT ![c] = @ \o <<"envelope", "payload">>]
            /\ UNCHANGED panicked
    /\ UNCHANGED <<client, connectResult, chan, req, message, sent, drawn, calls, peerMsg>>

\* the facade returns to its caller: its locals are dropped, the borrow ends
Return(c) ==
    /\ ~panicked
    /\ pc[c] = "returned"
    /\ pc' = [pc EXCEPT ![c] = "idle"]
    /\ req' = [req EXCEPT ![c] = "none"]
    /\ message' = [message EXCEPT ![c] = <<>>]
    /\ response' = [response EXCEPT ![c] = <<>>]
    /\ result' = [result EXCEPT ![c] = NoResult]
    /\ peerMsg' = NoPeerMsg
    /\ steps' = [steps EXCEPT ![c] = <<>>]
    /\ UNCHANGED <<client, connectResult, panicked, chan, sent, drawn, calls>>

Next ==
    \/ \E config \in {"invalid", "empty", "ok"}, tcp \in BOOLEAN, handshake \in BOOLEAN :
         Connect(config, tcp, handshake)
    \/ \E c \in Callers, kind \in RequestKinds : Call(c, kind)
    \/ \E c \in Callers, ok \in BOOLEAN : Send(c, ok)
    \/ \E c \in Callers, ok \in BOOLEAN : Receive(c, ok)
    \/ \E c \in Callers : ReceiveRefused(c)
    \/ \E c \in Callers : Decode(c)
    \/ \E c \in Callers : Return(c)

Spec == Init /\ [][Next]_vars

TypeOK ==
    /\ client \in {"none", "connected"}
    /\ connectResult \in {"none", "Ok", "Err"}
    /\ panicked \in BOOLEAN
    /\ chan \in {"open", "failed"}
    /\ \A c \in Callers : pc[c] \in {"idle", "built", "sent", "received", "returned", "aborted"}
    /\ calls \in 0..MaxQueries

\* ------------------------------------------------------- derived notions
\* the session state of the state machine, read off the program's state
SessionState ==
    IF panicked THEN "Aborted"
    ELSE IF client = "none" THEN "Disconnected"
    ELSE IF \E c \in Callers : pc[c] \in {"sent", "received"} THEN "AwaitingAnswer"
    ELSE "Connected"

\* the error kind a returned TlResult stands for: every TlError is a format error
ErrorKind(r) ==
    IF r.tag = "Ok" THEN "Success"
    ELSE IF r.tag = "Err" THEN "FormatError"
    ELSE "none"

\* the query of caller c has ended, by a return or by a panic
Ended(c) == pc[c] \in {"returned", "aborted"}

\* the queries sent and not yet completed
Outstanding == {c \in Callers : pc[c] \in {"sent", "received"}}

\* ------------------------------------------------------------------ claims

\* C1: every failing outcome of a query (send fails, receive fails, undecodable
\* envelope, non-answer envelope, undecodable payload) comes back to the caller
\* as an error kind; no query ends in a process abort.
C1_EveryFailureReturned ==
    \A c \in Callers :
        /\ pc[c] # "aborted"
        /\ pc[c] = "returned" =>
             ErrorKind(result[c]) \in {"Success", "TransportError", "FormatError", "ServerError"}

\* C2: an answer whose payload is a server error {code, message} makes the
\* query return ServerError with that code and message, whatever the expected type.
C2_ServerErrorReturned ==
    \A c \in Callers :
        (pc[c] = "returned" /\ peerMsg.shape = "answer" /\ peerMsg.ptype = "error") =>
            /\ result[c].tag = "ServerError"
            /\ result[c].value = peerMsg.value
            /\ result[c].err = peerMsg.raw

\* C3: a transport failure in send or receive makes the query return
\* TransportError and leaves the session Faulted, not the program aborted.
C3_TransportFailureFaults ==
    chan = "failed" =>
        /\ ~panicked
        /\ \E c \in Callers : pc[c] = "returned" /\ result[c].err = "TransportError"

\* C4: an answer carrying a value of the expected success type is returned as
\* exactly that typed value, and the session stays connected and usable.
C4_ExpectedValueReturned ==
    \A c \in Callers :
        (Ended(c) /\ peerMsg.shape = "answer" /\ peerMsg.ptype = "value"
            /\ peerMsg.type = ExpectedType[req[c]]) =>
            /\ pc[c] = "returned"
            /\ result[c] = OkResult(ExpectedType[req[c]], peerMsg.value)
            /\ SessionState = "Connected"
            /\ chan = "open"

C4_Witness ==
    \E c \in Callers :
        /\ pc[c] = "returned"
        /\ req[c] = "GetTime"
        /\ peerMsg.shape = "answer" /\ peerMsg.ptype = "value"
        /\ peerMsg.type = "CurrentTime" /\ peerMsg.value = 1700000000
        /\ result[c].tag = "Ok"
        /\ calls = 2

\* C5: a query never returns a success value decoded from an answer whose
\* query_id differs from the one of the envelope it sent.
C5_NoSuccessOnMismatch ==
    \A c \in Callers :
        (Ended(c) /\ peerMsg.shape = "answer"
            /\ peerMsg.token # WrittenQueryId(message[c])) =>
            /\ pc[c] = "returned"
            /\ result[c].tag = "Err"

\* C6 as stated: no query_id value is carried by two envelopes of the session.
C6_TokenNeverReused ==
    \A i, j \in 1..Len(sent) : i # j => sent[i] # sent[j]

\* C6 as amended: every call draws one query_id from the random source and
\* the envelope it builds and sends carries the value drawn in that call.
C6_OneDrawPerQuery ==
    /\ Len(drawn) = calls
    /\ \A i \in 1..Len(sent) : sent[i] = drawn[i]
    /\ \A c \in Callers :
         pc[c] \in {"built", "sent", "received", "returned"} =>
             WrittenQueryId(message[c]) = drawn[Len(drawn)]

C6_Witness ==
    /\ Len(sent) = 2
    /\ sent[1] # sent[2]
    /\ \E c \in Callers : pc[c] = "sent"

\* C7: at most one query is outstanding (sent and not yet completed) on the
\* session, whichever callers take turns on the client.
C7_SingleOutstanding == Cardinality(Outstanding) <= 1

C7_Witness ==
    /\ calls = 2
    /\ Len(sent) = 2
    /\ pc[1] = "idle"
    /\ pc[2] = "sent"

\* C8 as stated: decoding the buffer that encode produced for b gives payload b.
C8_EncodeDecodeRoundTrip ==
    \A c \in Callers :
        (Ended(c) /\ peerMsg.shape = "echo") =>
            /\ pc[c] = "returned"
            /\ response[c] = SerializeRequest(req[c])

\* C8 as amended: decoding the answer envelope that carries byte string b
\* under any query_id leaves exactly b as the payload; the query envelope that
\* encode builds parses back to the query variant holding the wrapped request,
\* and is never turned into a payload.
C8_AnswerRoundTrip ==
    \A c \in Callers :
        /\ (pc[c] = "returned" /\ peerMsg.shape = "answer") => response[c] = Payload(peerMsg)
        /\ (pc[c] = "received" /\ peerMsg.shape = "echo") =>
              LET data == DeserializeMessage(response[c]) IN
              /\ data.ok /\ data.variant = "Query"
              /\ data.query_id = drawn[Len(drawn)]
              /\ data.body = SerializeLsQuery(SerializeRequest(req[c]))
        /\ peerMsg.shape = "echo" => pc[c] # "returned"

C8_Witness ==
    \E c \in Callers :
        /\ pc[c] = "returned"
        /\ peerMsg.shape = "answer"
        /\ peerMsg.ptype = "raw"
        /\ Len(peerMsg.raw) = 3
        /\ peerMsg.token # WrittenQueryId(message[c])
        /\ response[c] = peerMsg.raw

\* C9: a received message that is not the answer variant (a query-variant
\* message, an unrecognized tag) makes the query return FormatError.
C9_NonAnswerIsFormatError ==
    \A c \in Callers :
        (Ended(c) /\ peerMsg.shape \in {"echo", "unknown"}) =>
            /\ pc[c] = "returned"
            /\ ErrorKind(result[c]) = "FormatError"

\* C10: a truncated received buffer makes decode return FormatError and
\* leaves nothing of the buffer behind in the session.
C10_TruncatedIsFormatError ==
    \A c \in Callers :
        (Ended(c) /\ peerMsg.shape = "truncated") =>
            /\ pc[c] = "returned"
            /\ ErrorKind(result[c]) = "FormatError"
            /\ SessionState # "Aborted"

\* C11: a received envelope longer than the 8192-byte bound makes the query
\* fail with FormatError; no success value comes out of it.
C11_OversizeIsFormatError ==
    \A c \in Callers :
        (Ended(c) /\ peerMsg.ptype = "big") =>
            /\ pc[c] = "returned"
            /\ ErrorKind(result[c]) = "FormatError"

\* C12: a query answered with a server error returns ServerError and leaves
\* the session connected and usable for a further query.
C12_ServerErrorRecoverable ==
    \A c \in Callers :
        (Ended(c) /\ peerMsg.shape = "answer" /\ peerMsg.ptype = "error") =>
            /\ ErrorKind(result[c]) = "ServerError"
            /\ SessionState = "Connected"
            /\ chan = "open"

\* the request -> success type table of the catalog, as the specification lists it
\* (its SendStatus is the type the code names SendMsgStatus)
C13_Table ==
    [k \in RequestKinds |->
       CASE k \in {"LookupBlock", "GetBlockHeader"} -> "BlockHeader"
         [] k \in {"GetConfigAll", "GetConfigParams"} -> "ConfigInfo"
         [] k = "GetTime" -> "CurrentTime"
         [] k = "GetBlock" -> "BlockData"
         [] k = "GetState" -> "BlockState"
         [] k = "SendMessage" -> "SendMsgStatus"
         [] k = "RunSmcMethod" -> "RunMethodResult"
         [] k = "GetOneTransaction" -> "TransactionInfo"
         [] k = "GetTransactions" -> "TransactionList"
         [] k = "ListBlockTransactions" -> "BlockTransactions"
         [] k = "GetBlockProof" -> "PartialBlockProof"
         [] k = "GetMasterchainInfo" -> "MasterchainInfo"
         [] k = "GetMasterchainInfoExt" -> "MasterchainInfoExt"
         [] k = "GetVersion" -> "Version"
         [] k = "GetAccountState" -> "AccountState"
         [] k = "GetShardInfo" -> "ShardInfo"
         [] k = "GetAllShardsInfo" -> "AllShardsInfo"
         [] k = "GetValidatorStats" -> "ValidatorStats"]

\* how often step s occurs in the sequence st
Count(st, s) == Cardinality({i \in 1..Len(st) : st[i] = s})

\* C13: a facade call issues one generic query: the envelope built carries the
\* request of the facade's kind, the value returned is of the success type the
\* table gives for that kind, and the call sends and receives at most once.
C13_FacadeIssuesOneQuery ==
    /\ Len(sent) <= calls
    /\ \A c \in Callers :
         /\ steps[c] # <<>> =>
              LET env == DeserializeMessage(message[c]) IN
              /\ env.ok /\ env.variant = "Query"
              /\ env.body = SerializeLsQuery(TlId(req[c]))
         /\ pc[c] = "returned" => result[c].type = C13_Table[req[c]]
         /\ Count(steps[c], "send") <= 1
         /\ Count(steps[c], "receive") <= 1

C13_Witness ==
    \E c \in Callers :
        /\ pc[c] = "returned"
        /\ req[c] = "LookupBlock"
        /\ peerMsg.ptype = "value" /\ peerMsg.type = "BlockHeader"
        /\ result[c] = OkResult("BlockHeader", peerMsg.value)

\* C14: connect returns a connected client or a ConnectError value for every
\* input; it never aborts, and a client exists only after connect returned Ok.
C14_ConnectReturnsValue ==
    /\ (client = "none" /\ calls = 0) => ~panicked
    /\ client = "connected" => connectResult = "Ok"

StepOrder == <<"encode", "send", "receive", "envelope", "payload">>

\* C15: the steps of a call are taken in the order encode, send, receive,
\* envelope decode, payload decode, each at most once; a failed send is followed
\* by no receive; no envelope is sent again; the session is never reconnected.
C15_StepsInOrder ==
    [][/\ \A c \in Callers :
            /\ Len(steps'[c]) <= Len(StepOrder)
            /\ steps'[c] = SubSeq(StepOrder, 1, Len(steps'[c]))
            /\ (pc'[c] = "aborted" /\ Len(sent') < calls') => Count(steps'[c], "receive") = 0
       /\ Len(sent') <= calls'
       /\ Len(sent') <= Len(sent) + 1
       /\ (panicked \/ client = "connected") => UNCHANGED <<client, connectResult>>]_vars

C15_Witness ==
    \E c \in Callers :
        /\ steps[c] = StepOrder
        /\ calls = 2
        /\ Len(sent) = 2

\* C16: an answer payload that is neither of the expected type nor a server
\* error makes the query return FormatError carrying the raw payload bytes.
C16_UndecodablePayloadCarriesBytes ==
    \A c \in Callers :
        (Ended(c) /\ peerMsg.shape = "answer"
            /\ (\/ peerMsg.ptype \in {"raw", "short"}
                \/ peerMsg.ptype = "value" /\ peerMsg.type # ExpectedType[req[c]])) =>
            /\ pc[c] = "returned"
            /\ ErrorKind(result[c]) = "FormatError"
            /\ result[c].diag = Payload(peerMsg)

\* C17: a query whose envelope was sent ends by returning to its caller, once
\* the channel has delivered a well-formed answer or has reported a failure.
C17_SentQueryReturns ==
    \A c \in Callers :
        (Ended(c) /\ Count(steps[c], "receive") = 1
            /\ (chan = "failed" \/ (peerMsg.shape = "answer" /\ peerMsg.ptype # "big"))) =>
            pc[c] = "returned"

\* C18: a later query never returns a success decoded from an answer to an
\* earlier request (an answer carrying the first query's id, not the second's).
C18_NoStaleAnswer ==
    \A c \in Callers :
        (pc[c] = "returned" /\ Len(sent) = 2 /\ peerMsg.shape = "answer"
            /\ peerMsg.token = sent[1] /\ sent[1] # sent[2]) =>
            result[c].tag # "Ok"

\* C19: when lite_query has returned, the response buffer holds the inner
\* payload of the answer envelope, not the received envelope, and the value
\* returned is the one decoded from that payload.
C19_ResponseHoldsPayload ==
    \A c \in Callers :
        pc[c] = "returned" =>
            /\ peerMsg.shape = "answer"
            /\ response[c] = Payload(peerMsg)
            /\ response[c] # WireBytes(peerMsg, message[c])
            /\ result[c] = DeserializeValue(ExpectedType[req[c]], Payload(peerMsg))

C19_Witness ==
    \E c \in Callers :
        /\ pc[c] = "returned"
        /\ result[c].tag = "Err"
        /\ peerMsg.ptype = "error"
        /\ response[c] = SerializeError(peerMsg.value, NotFound)

====
